---- MODULE Spec2Model ----
(***************************************************************************)
(* The batch classification engine of apps/systematic_review/utils/        *)
(* openai_analyzer.py: Decision.from_raw and OpenAIClient (review_batch,   *)
(* review_single, call_with_retries, invoke_model, rate_limit,             *)
(* calculate_cost).                                                        *)
(*                                                                         *)
(* Representation.  A Python str is a sequence of tokens.  Where single    *)
(* characters matter (decision labels, serialized JSON) every token is a   *)
(* one-character string, so that strip() and lower() are computed          *)
(* character by character.  A fixed diagnostic literal of the source is    *)
(* one token.  Python's None, where a str is expected, is the tuple        *)
(* NoneValue, whose only token is no character.                            *)
(***************************************************************************)
EXTENDS Integers, Sequences, FiniteSets, TLC

\* ------------------------------------------------------------------ bounds
\* longest run of whitespace put before and after a label
MaxPad == 1
\* most prompts in one batch
MaxPrompts == 2
\* largest max_workers explored
MaxWorkers == 2
\* largest max_retries explored in a batch
MaxRetries == 2
\* the most rate_limit calls made on one client directly
MaxRequests == 3

\* ----------------------------------------------------------------- strings
UPPER == <<"A","B","C","D","E","F","G","H","I","J","K","L","M",
           "N","O","P","Q","R","S","T","U","V","W","X","Y","Z">>
LOWER == <<"a","b","c","d","e","f","g","h","i","j","k","l","m",
           "n","o","p","q","r","s","t","u","v","w","x","y","z">>

\* the characters str.strip() removes (the ASCII ones that can be written here)
Whitespace == {" ", "\t", "\n", "\r"}

NoneValue == <<"None">>

\* str.lower() on one character
CharLower(c) ==
    IF \E k \in 1..Len(UPPER) : UPPER[k] = c
    THEN LOWER[CHOOSE k \in 1..Len(UPPER) : UPPER[k] = c]
    ELSE c

\* str.upper() on one character (used only to build inputs)
CharUpper(c) ==
    IF \E k \in 1..Len(LOWER) : LOWER[k] = c
    THEN UPPER[CHOOSE k \in 1..Len(LOWER) : LOWER[k] = c]
    ELSE c

StrLower(s) == [k \in 1..Len(s) |-> CharLower(s[k])]

RECURSIVE LStrip(_)
LStrip(s) ==
    IF s # <<>> /\ Head(s) \in Whitespace THEN LStrip(Tail(s)) ELSE s

RECURSIVE RStrip(_)
RStrip(s) ==
    IF s # <<>> /\ s[Len(s)] \in Whitespace
    THEN RStrip(SubSeq(s, 1, Len(s) - 1))
    ELSE s

\* str.strip()
StrStrip(s) == RStrip(LStrip(s))

\* ---------------------------------------------------------------- Decision
INCLUDE == <<"i","n","c","l","u","d","e">>
EXCLUDE == <<"e","x","c","l","u","d","e">>
UNSURE  == <<"u","n","s","u","r","e">>

\* Decision._value2member_map_: the values of the three members.  Decision is
\* a str-valued Enum, so a member is (equal to) its value.
Decision == {INCLUDE, EXCLUDE, UNSURE}

\* a from_raw that forgets lower()
from_raw_nolower(raw_label) ==
    IF raw_label = NoneValue THEN UNSURE
    ELSE LET normalized == StrStrip(raw_label)
         IN  IF normalized \in Decision THEN normalized ELSE UNSURE

\* Decision.from_raw
from_raw(raw_label) ==
    IF raw_label = NoneValue THEN UNSURE
    ELSE LET normalized == StrLower(StrStrip(raw_label))
         IN  IF normalized \in Decision THEN normalized ELSE UNSURE

\* ------------------------------------------------------ inputs of from_raw
\* every run of at most n whitespace characters
RECURSIVE Pads(_)
Pads(n) ==
    IF n = 0 THEN {<<>>}
    ELSE Pads(n - 1) \cup
         {<<c>> \o p : c \in Whitespace, p \in {q \in Pads(n - 1) : Len(q) = n - 1}}

\* w with the characters at the positions in up turned to upper case
Cased(w, up) == [k \in 1..Len(w) |-> IF k \in up THEN CharUpper(w[k]) ELSE w[k]]

\* words that are no decision value, also after normalisation
OtherWords ==
    { <<>>, <<"m","a","y","b","e">>, <<"i","n","c","l","u","d","e","s">>,
      <<"i","n"," ","c","l","u","d","e">>, <<"N","o","n","e">>, <<"y","e","s">> }

RawLabels ==
    {NoneValue} \cup
    { pre \o Cased(w, up) \o post :
        pre \in Pads(MaxPad), post \in Pads(MaxPad),
        w \in Decision \cup OtherWords, up \in SUBSET (1..2) \cup {1..8} }

\* ------------------------------------------------- provider response bodies
\* A value of a field of a JSON object: t is its JSON type ("absent" when the
\* object has no such key), s the characters of a string or of a number.
Absent    == [t |-> "absent", s |-> <<>>]
JNull     == [t |-> "null",   s |-> <<>>]
JNum      == [t |-> "num",    s |-> <<"7">>]
JEmptyObj == [t |-> "obj",    s |-> <<>>]
JStr(s)   == [t |-> "str",    s |-> s]

\* message.content of a response: None, text that is no JSON (the empty
\* string included), a JSON document that is no object, or a JSON object with
\* its "decision" and "notes" fields.
CNone      == [kind |-> "none",   decision |-> Absent, notes |-> Absent]
CText      == [kind |-> "text",   decision |-> Absent, notes |-> Absent]
CEmpty     == [kind |-> "empty",  decision |-> Absent, notes |-> Absent]
CList      == [kind |-> "list",   decision |-> Absent, notes |-> Absent]
CString    == [kind |-> "string", decision |-> Absent, notes |-> Absent]
CNull      == [kind |-> "null",   decision |-> Absent, notes |-> Absent]
CObj(d, n) == [kind |-> "object", decision |-> d, notes |-> n]

\* the notes handed on as they were parsed, None for a JSON null or a
\* missing field
NotesUnserialized(v) ==
    CASE v.t = "obj"  -> NoneValue
      [] v.t = "null" -> NoneValue
      [] v.t = "num"  -> v.s
      [] v.t = "str"  -> v.s

\* json.dumps(v) for the values above
JsonDumps(v) ==
    CASE v.t = "obj"  -> <<"{", "}">>
      [] v.t = "null" -> <<"n","u","l","l">>
      [] v.t = "num"  -> v.s
      [] v.t = "str"  -> <<"\"">> \o v.s \o <<"\"">>

\* the notes of the source, each one token (the source's literal in the
\* comment; the specification gives them in English)
\* "模型配置缺失"
NOTE_MODEL_MISSING == <<"model configuration missing">>
\* "模型调用失败"
NOTE_CALL_FAILED == <<"invocation failed after retries">>
\* "返回格式非 JSON"
NOTE_NON_JSON == <<"non-JSON response">>
\* "返回 decision 非法"
NOTE_INVALID_DECISION == <<"invalid decision value">>
\* "并发处理异常"
NOTE_TASK_EXCEPTION == <<"concurrent task exception">>

\* what a call ends in: a returned (Decision, notes), or an exception
Returned(d, n) == [exc |-> "none", dec |-> d, notes |-> n]
Raised(e)      == [exc |-> e, dec |-> <<>>, notes |-> <<>>]

\* exceptions of the connection, of the provider's 5xx and of its rate limit
\* (APIConnectionError, APITimeoutError, InternalServerError, RateLimitError)
TransientErrors == {"Transient"}
\* every exception class that occurs: a provider error that is not transient
\* (AuthenticationError, BadRequestError), and the built-in ones
ExceptionKinds ==
    TransientErrors \cup {"Permanent", "TypeError", "AttributeError", "ValueError"}

\* invoke_model, steps 6 and 7, with decision values compared as returned
ParseResponseNoNormalize(content) ==
    CASE content.kind = "none" -> Raised("TypeError")
      [] content.kind \in {"text", "empty"} -> Returned(UNSURE, NOTE_NON_JSON)
      [] content.kind \in {"list", "string", "null"} -> Raised("AttributeError")
      [] content.kind = "object" ->
            LET raw_decision == IF content.decision.t = "absent"
                                THEN JStr(<<>>) ELSE content.decision
                notes == IF content.notes.t = "absent"
                         THEN JEmptyObj ELSE content.notes
            IN  IF raw_decision.t # "str" THEN Raised("AttributeError")
                ELSE IF raw_decision.s \notin Decision
                     THEN Returned(UNSURE, NOTE_INVALID_DECISION)
                     ELSE Returned(raw_decision.s, JsonDumps(notes))

\* invoke_model, steps 6 and 7: json.loads of the content, the two
\* parsed.get, the normalisation and validation of the decision
ParseResponse(content) ==
    CASE content.kind = "none" -> Raised("TypeError")
      [] content.kind \in {"text", "empty"} -> Returned(UNSURE, NOTE_NON_JSON)
      [] content.kind \in {"list", "string", "null"} -> Raised("AttributeError")
      [] content.kind = "object" ->
            LET raw_decision == IF content.decision.t = "absent"
                                THEN JStr(<<>>) ELSE content.decision
                notes == IF content.notes.t = "absent"
                         THEN JEmptyObj ELSE content.notes
            IN  IF raw_decision.t # "str" THEN Raised("AttributeError")
                ELSE LET decision_label == StrLower(StrStrip(raw_decision.s))
                     IN  IF decision_label \notin Decision
                         THEN Returned(UNSURE, NOTE_INVALID_DECISION)
                         ELSE Returned(decision_label, JsonDumps(notes))

\* ------------------------------------------------------------ configuration
\* the tokens of the system prompt and of the prompts (encoder.encode)
SystemPrompt == <<"sys">>
Prompts == { <<"a">>, <<"a", "b", "c">> }

\* self.model_map.get("stage3"): None, the stage3 model of settings.py (which
\* the price table does not hold), or a model the price table holds
NoModel == "None"
Models == {"gpt-5.1", "gpt-4o"}

\* tpm_limit: 0 stands for None and for 0 (both are "not self.tpm_limit")
TpmLimits == {0, 3, 6}

\* time is counted in units of 0.05 s: 60.0 s and the 50 ms buffer
WINDOW == 1200
BUFFER == 1

\* PRICE_PER_1K_TOKENS, in units of 0.0001 USD per 1000 tokens, so that the
\* cost of n tokens is n times the price, in units of 0.0000001 USD
PRICE_PER_1K_TOKENS ==
    [m \in {"gpt-4o", "gpt-4o-mini", "gpt-4.1", "gpt-4.1-mini"} |->
        CASE m = "gpt-4o" -> 200 [] m = "gpt-4o-mini" -> 24
          [] m = "gpt-4.1" -> 80 [] m = "gpt-4.1-mini" -> 16]
DEFAULT_PRICE == 50

\* the default of max_retries
DEFAULT_MAX_RETRIES == 8

\* response.usage: None, or the token counts of the response
NoUsage == [present |-> FALSE, prompt_tokens |-> 0, completion_tokens |-> 0]
SomeUsage == [present |-> TRUE, prompt_tokens |-> 2, completion_tokens |-> 1]

\* what the provider does on one request: raise, or respond
Raises(e)       == [raise |-> e, content |-> CNone, usage |-> NoUsage]
Responds(c, u)  == [raise |-> "none", content |-> c, usage |-> u]

VARIABLES
    \* the client: [max_workers, max_retries, model, tpm_limit, stream]
    cfg,
    \* self.call_timestamps, time.time(), self.total_tokens, self.total_cost,
    \* the keys of self.encoding_cache
    call_timestamps, now, total_tokens, total_cost, encoding_cache,
    \* review_batch: its argument, where it stands, its result list
    texts, pcMain, results,
    \* per prompt: the state of its review_single call, the tries of the retry
    \* loop, what review_single ended in
    st, tries, fut,
    \* per prompt: the provider requests made
    calls,
    \* of the review_single calls made one after the other (directly, or by
    \* the sequential branch): the most recent attempt, and the number of
    \* attempts that ended in a transient error
    last,
    \* Decision.from_raw applied to an input, and to its own result
    raw_label, label1, label2, pcRaw,
    \* of rate_limit calls made on the client directly: the entries appended,
    \* each with the time its call returned, and the most recent call
    grants, rl_last,
    \* per worker thread of the pool: where it stands in invoke_model, and
    \* its local variables
    thr

clientVars == <<cfg, call_timestamps, now, total_tokens, total_cost, encoding_cache>>
batchVars == <<texts, pcMain, results, st, tries, fut, calls, last>>
rawVars == <<raw_label, label1, label2, pcRaw>>
limVars == <<grants, rl_last>>
thrVars == <<limVars, thr>>
vars == <<clientVars, batchVars, rawVars, thrVars>>

NoAttempt ==
    [requested |-> FALSE, responded |-> FALSE, content |-> CNone,
     usage |-> NoUsage, out |-> Raised("no attempt"), transients |-> 0]

\* OpenAIClient.__init__, and no review_batch call yet
InitClient(c) ==
    /\ cfg = c
    /\ call_timestamps = <<>>
    /\ now = 0
    /\ total_tokens = 0
    /\ total_cost = 0
    /\ encoding_cache = {}
    /\ texts = <<>>
    /\ pcMain = "idle"
    /\ results = <<>>
    /\ st = <<>>
    /\ tries = <<>>
    /\ fut = <<>>
    /\ calls = <<>>
    /\ last = NoAttempt

RawIdle ==
    /\ raw_label = NoneValue
    /\ label1 = NoneValue
    /\ label2 = NoneValue
    /\ pcRaw = "idle"

\* rate_limit not called yet
NoCall ==
    [n |-> 0, tokens |-> 0, exc |-> "no call", entered |-> 0, before |-> <<>>,
     oversize |-> FALSE]

\* no direct rate_limit call, and no worker thread
ThrIdle ==
    /\ grants = <<>>
    /\ rl_last = NoCall
    /\ thr = <<>>

\* ------------------------------------------------------------- rate_limit
RECURSIVE SumTokens(_)
SumTokens(w) == IF w = <<>> THEN 0 ELSE Head(w)[2] + SumTokens(Tail(w))

RECURSIVE MinTs(_)
MinTs(w) ==
    IF Len(w) = 1 THEN Head(w)[1]
    ELSE LET m == MinTs(Tail(w)) IN IF Head(w)[1] < m THEN Head(w)[1] ELSE m

Live(w, t) == SelectSeq(w, LAMBDA e : t - e[1] < WINDOW)

\* a rate_limit without its first line
RateLimitAlwaysOn(w, t, tpm_limit, tokens_requested) ==
    LET live == Live(w, t)
        used_last_minute == SumTokens(live)
    IN  IF used_last_minute + tokens_requested > tpm_limit
        THEN IF live = <<>>
             THEN [exc |-> "ValueError", window |-> live, now |-> t]
             ELSE [exc |-> "none",
                   window |-> Append(live, <<t, tokens_requested>>),
                   now |-> t + WINDOW - (t - MinTs(live)) + BUFFER]
        ELSE [exc |-> "none",
              window |-> Append(live, <<t, tokens_requested>>),
              now |-> t]

\* a rate_limit that admits without recording the call
RateLimitNoRecord(w, t, tpm_limit, tokens_requested) ==
    IF tpm_limit = 0 THEN [exc |-> "none", window |-> w, now |-> t]
    ELSE LET live == Live(w, t)
             used_last_minute == SumTokens(live)
         IN  IF used_last_minute + tokens_requested > tpm_limit
             THEN IF live = <<>>
                  THEN [exc |-> "ValueError", window |-> live, now |-> t]
                  ELSE [exc |-> "none", window |-> live,
                        now |-> t + WINDOW - (t - MinTs(live)) + BUFFER]
             ELSE [exc |-> "none", window |-> live, now |-> t]

\* a rate_limit that records an admitted call twice
RateLimitRecordsTwice(w, t, tpm_limit, tokens_requested) ==
    IF tpm_limit = 0 THEN [exc |-> "none", window |-> w, now |-> t]
    ELSE LET live == Live(w, t)
             used_last_minute == SumTokens(live)
             twice == live \o << <<t, tokens_requested>>, <<t, tokens_requested>> >>
         IN  IF used_last_minute + tokens_requested > tpm_limit
             THEN IF live = <<>>
                  THEN [exc |-> "ValueError", window |-> live, now |-> t]
                  ELSE [exc |-> "none", window |-> twice,
                        now |-> t + WINDOW - (t - MinTs(live)) + BUFFER]
             ELSE [exc |-> "none", window |-> twice, now |-> t]

\* rate_limit(tokens_requested) entered at time t with window w: the exception
\* it ends in, the window and the time it leaves
RateLimit(w, t, tpm_limit, tokens_requested) ==
    IF tpm_limit = 0 THEN [exc |-> "none", window |-> w, now |-> t]
    ELSE LET live == Live(w, t)
             used_last_minute == SumTokens(live)
         IN  IF used_last_minute + tokens_requested > tpm_limit
             THEN IF live = <<>>
                  \* min() of an empty sequence
                  THEN [exc |-> "ValueError", window |-> live, now |-> t]
                  ELSE LET wait_seconds == WINDOW - (t - MinTs(live)) + BUFFER
                       IN  [exc |-> "none",
                            window |-> Append(live, <<t, tokens_requested>>),
                            now |-> t + wait_seconds]
             ELSE [exc |-> "none",
                   window |-> Append(live, <<t, tokens_requested>>),
                   now |-> t]

\* a calculate_cost that charges nothing for a model the table lacks
CalculateCostTableOnly(model, used_tokens) ==
    IF model \in DOMAIN PRICE_PER_1K_TOKENS
    THEN PRICE_PER_1K_TOKENS[model] * used_tokens ELSE 0

\* calculate_cost: unit_price * used_tokens / 1000
CalculateCost(model, used_tokens) ==
    LET unit_price == IF model \in DOMAIN PRICE_PER_1K_TOKENS
                      THEN PRICE_PER_1K_TOKENS[model] ELSE DEFAULT_PRICE
    IN  unit_price * used_tokens

\* ------------------------------------------------------------ review_batch
Indices == 1..Len(texts)

Slot(r) == [dec |-> r.dec, notes |-> r.notes]

\* review_batch(ts) is called: the sequential branch starts with no result,
\* the pooled branch pre-sizes the result list and submits one task per prompt
ReviewBatch(ts) ==
    /\ pcMain = "idle"
    /\ texts' = ts
    /\ pcMain' = IF cfg.max_workers <= 1 THEN "seq" ELSE "pool"
    /\ results' = IF cfg.max_workers <= 1 THEN <<>>
                  ELSE [i \in 1..Len(ts) |-> [dec |-> UNSURE, notes |-> <<>>]]
    /\ st' = [i \in 1..Len(ts) |-> "pending"]
    /\ tries' = [i \in 1..Len(ts) |-> 0]
    /\ fut' = [i \in 1..Len(ts) |-> Raised("not done")]
    /\ calls' = [i \in 1..Len(ts) |-> 0]
    /\ UNCHANGED <<clientVars, last, rawVars, thrVars>>

\* review_single(t) is called by a user of the client, as in the class's
\* usage example, not by review_batch
CallReviewSingle(t) ==
    /\ pcMain = "idle"
    /\ texts' = <<t>>
    /\ pcMain' = "single"
    /\ st' = <<"pending">>
    /\ tries' = <<0>>
    /\ fut' = <<Raised("not done")>>
    /\ calls' = <<0>>
    /\ UNCHANGED <<clientVars, results, last, rawVars, thrVars>>

\* any prompt not yet begun may begin
MayStartAny(i) ==
    /\ st[i] = "pending"
    /\ pcMain \in {"seq", "pool", "single"}

\* which prompt's review_single may begin: in the sequential branch the one
\* after the results so far; in the pool the first task still queued, when a
\* worker thread is free
MayStart(i) ==
    /\ st[i] = "pending"
    /\ \A j \in Indices : j < i => st[j] # "pending"
    /\ CASE pcMain = "seq" -> i = Len(results) + 1
         [] pcMain = "pool" ->
              Cardinality({j \in Indices : st[j] = "running"}) < cfg.max_workers
         [] pcMain = "single" -> TRUE
         [] OTHER -> FALSE

\* a review_single that calls call_with_retries whatever the lookup gave
StartTaskAnyModel(i) ==
    /\ MayStart(i)
    /\ st' = [st EXCEPT ![i] = "running"]
    /\ UNCHANGED <<clientVars, texts, pcMain, results, tries, fut, calls,
                   last, rawVars, thrVars>>

\* review_single up to its call of call_with_retries: the stage3 model is
\* looked up, and a missing one ends the call
StartTask(i) ==
    /\ MayStart(i)
    /\ IF cfg.model = NoModel
       THEN /\ st' = [st EXCEPT ![i] = "done"]
            /\ fut' = [fut EXCEPT ![i] = Returned(UNSURE, NOTE_MODEL_MISSING)]
       ELSE /\ st' = [st EXCEPT ![i] = "running"]
            /\ UNCHANGED fut
    /\ UNCHANGED <<clientVars, texts, pcMain, results, tries, calls,
                   last, rawVars, thrVars>>

\* backoff.on_exception(backoff.expo, Exception, ...): the exceptions that
\* are retried are the instances of Exception
RetryOn(e) == e \in ExceptionKinds

\* a retry loop that gives up one try late
GiveUpLate(n) == n = cfg.max_retries + 1

\* max_tries = self.max_retries: the loop gives up when the tries made
\* equal max_tries
GiveUp(n) == n = cfg.max_retries

\* call_with_retries catching nothing but transient errors
CallWithRetriesCatchesTransient(e) == e \in TransientErrors

\* call_with_retries: "except Exception"
CallWithRetriesCatches(e) == e \in ExceptionKinds

\* call_with_retries answering every attempt with the failure note
InnerCallEndDropsResult(out, n) ==
    IF out.exc = "none" THEN Returned(UNSURE, NOTE_CALL_FAILED)
    ELSE IF RetryOn(out.exc) /\ ~GiveUp(n) THEN Raised("retry")
    ELSE IF CallWithRetriesCatches(out.exc)
         THEN Returned(UNSURE, NOTE_CALL_FAILED)
         ELSE out

\* call_with_retries after try n of inner_call ended in out: Raised("retry")
\* when the loop sleeps and tries again, else what call_with_retries ends in
InnerCallEnd(out, n) ==
    IF out.exc = "none" THEN out
    ELSE IF RetryOn(out.exc) /\ ~GiveUp(n) THEN Raised("retry")
    ELSE IF CallWithRetriesCatches(out.exc)
         THEN Returned(UNSURE, NOTE_CALL_FAILED)
         ELSE out

\* the bookkeeping after one try of inner_call for prompt i
AfterAttempt(i, out, rec) ==
    LET n == tries[i] + 1
        end == InnerCallEnd(out, n)
    IN  /\ tries' = [tries EXCEPT ![i] = n]
        /\ last' = IF pcMain \in {"single", "seq"}
                   THEN [rec EXCEPT !.out = out,
                                    !.transients = last.transients +
                                        IF out.exc \in TransientErrors THEN 1 ELSE 0]
                   ELSE last
        /\ IF end = Raised("retry")
           THEN UNCHANGED <<st, fut>>
           ELSE /\ st' = [st EXCEPT ![i] = "done"]
                /\ fut' = [fut EXCEPT ![i] = end]

\* text_response and usage of a response: a streamed one accumulates the
\* chunks' content into a str and has no usage attribute
TextResponse(o) ==
    IF cfg.stream /\ o.content.kind = "none" THEN CEmpty ELSE o.content
UsageOf(o) == IF cfg.stream THEN NoUsage ELSE o.usage

\* a count of the prompt's tokens alone
UsedTokensPromptOnly(usage) == usage.prompt_tokens

\* used_tokens = usage.prompt_tokens + usage.completion_tokens
UsedTokens(usage) == usage.prompt_tokens + usage.completion_tokens

\* an accounting that waits for the parsing and counts only the responses that
\* gave a decision
AccountsAfterParsing(usage, parsed) ==
    /\ usage.present
    /\ parsed.exc = "none"
    /\ parsed.notes \notin {NOTE_NON_JSON, NOTE_INVALID_DECISION}

\* "if usage:", step 5 of invoke_model: it comes before the parsing of steps
\* 6 and 7 and does not look at what the parsing will give
Accounts(usage, parsed) == usage.present

\* One try of inner_call for prompt i, that is one invoke_model: the encoder,
\* rate_limit, the request (the provider does one of outcomes), the usage
\* accounting, the parsing; then the retry loop's decision.
Attempt(i, outcomes) ==
    /\ i \in Indices
    /\ st[i] = "running"
    /\ LET model == cfg.model
           total_prompt_tokens == Len(SystemPrompt) + Len(texts[i])
           rl == RateLimit(call_timestamps, now, cfg.tpm_limit, total_prompt_tokens)
       IN  /\ encoding_cache' = encoding_cache \cup {model}
           /\ call_timestamps' = rl.window
           /\ now' = rl.now
           /\ IF rl.exc # "none"
              THEN /\ UNCHANGED <<total_tokens, total_cost, calls>>
                   /\ AfterAttempt(i, Raised(rl.exc), NoAttempt)
              ELSE \E o \in outcomes :
                   /\ calls' = [calls EXCEPT ![i] = @ + 1]
                   /\ IF o.raise # "none"
                      THEN /\ UNCHANGED <<total_tokens, total_cost>>
                           /\ AfterAttempt(i, Raised(o.raise),
                                           [NoAttempt EXCEPT !.requested = TRUE])
                      ELSE LET text_response == TextResponse(o)
                               usage == UsageOf(o)
                               used_tokens == UsedTokens(usage)
                           IN  /\ IF Accounts(usage, ParseResponse(text_response))
                                  THEN /\ total_tokens' = total_tokens + used_tokens
                                       /\ total_cost' = total_cost
                                                        + CalculateCost(model, used_tokens)
                                  ELSE UNCHANGED <<total_tokens, total_cost>>
                               /\ AfterAttempt(i, ParseResponse(text_response),
                                    [NoAttempt EXCEPT !.requested = TRUE,
                                                      !.responded = TRUE,
                                                      !.content = text_response,
                                                      !.usage = usage])
    /\ UNCHANGED <<cfg, texts, pcMain, results, rawVars, thrVars>>

\* results[idx] = v, the slots being filled in the order of completion
StoreInCompletionOrder(res, idx, v) ==
    [res EXCEPT ![Cardinality({j \in Indices : st[j] = "collected"}) + 1] = v]

\* results[idx] = v
Store(res, idx, v) == [res EXCEPT ![idx] = v]

\* a loop over as_completed that takes the same finished future again and
\* again
CollectForgets(i) ==
    /\ pcMain = "pool"
    /\ i \in Indices
    /\ st[i] = "done"
    /\ results' = Store(results, i,
                        IF fut[i].exc = "none" THEN Slot(fut[i])
                        ELSE [dec |-> UNSURE, notes |-> NOTE_TASK_EXCEPTION])
    /\ UNCHANGED <<clientVars, texts, pcMain, st, tries, fut, calls,
                   last, rawVars, thrVars>>

\* a loop over as_completed without the try around future.result()
CollectReraises(i) ==
    /\ pcMain = "pool"
    /\ i \in Indices
    /\ st[i] = "done"
    /\ IF fut[i].exc = "none"
       THEN /\ results' = Store(results, i, Slot(fut[i]))
            /\ UNCHANGED pcMain
       ELSE /\ pcMain' = "raised"
            /\ UNCHANGED results
    /\ st' = [st EXCEPT ![i] = "collected"]
    /\ UNCHANGED <<clientVars, texts, tries, fut, calls, last, rawVars, thrVars>>

\* the pooled branch's loop over as_completed: a finished future is taken,
\* in the order of completion, and its result (or the note of its exception)
\* is stored at its index
Collect(i) ==
    /\ pcMain = "pool"
    /\ i \in Indices
    /\ st[i] = "done"
    /\ results' = Store(results, i,
                        IF fut[i].exc = "none" THEN Slot(fut[i])
                        ELSE [dec |-> UNSURE, notes |-> NOTE_TASK_EXCEPTION])
    /\ st' = [st EXCEPT ![i] = "collected"]
    /\ UNCHANGED <<clientVars, texts, pcMain, tries, fut, calls,
                   last, rawVars, thrVars>>

\* the sequential branch's list comprehension: the result of review_single is
\* appended, and an exception of review_single leaves review_batch
SeqCollect(i) ==
    /\ pcMain = "seq"
    /\ i \in Indices
    /\ st[i] = "done"
    /\ IF fut[i].exc = "none"
       THEN /\ results' = Append(results, Slot(fut[i]))
            /\ UNCHANGED pcMain
       ELSE /\ pcMain' = "raised"
            /\ UNCHANGED results
    /\ st' = [st EXCEPT ![i] = "collected"]
    /\ UNCHANGED <<clientVars, texts, tries, fut, calls, last, rawVars, thrVars>>

\* review_batch returns results
Return ==
    /\ pcMain \in {"seq", "pool"}
    /\ \A i \in Indices : st[i] = "collected"
    /\ pcMain' = "returned"
    /\ UNCHANGED <<clientVars, texts, results, st, tries, fut, calls,
                   last, rawVars, thrVars>>

\* the review_single that was called directly returns, or raises
ReturnSingle ==
    /\ pcMain = "single"
    /\ Indices = {1}
    /\ st[1] = "done"
    /\ pcMain' = IF fut[1].exc = "none" THEN "returned" ELSE "raised"
    /\ UNCHANGED <<clientVars, texts, results, st, tries, fut, calls, last, rawVars, thrVars>>

\* ------------------------------------------------------- the specifications
\* the defaults of OpenAIClient.__init__, with the stage3 model of settings.py
DefaultConfig ==
    [max_workers |-> 1, max_retries |-> DEFAULT_MAX_RETRIES, model |-> "gpt-5.1",
     tpm_limit |-> 0, stream |-> FALSE]

\* what the provider does in a batch
BatchOutcomes ==
    { Raises("Transient"),
      Responds(CText, SomeUsage), Responds(CNone, NoUsage),
      Responds(CObj(JStr(<<"I","n","c","l","u","d","e"," ">>), JEmptyObj), SomeUsage),
      Responds(CObj(JStr(EXCLUDE), Absent), SomeUsage),
      Responds(CObj(JStr(<<"m","a","y","b","e">>), JNull), SomeUsage) }

BatchConfigs ==
    [max_workers : 1..MaxWorkers, max_retries : {1, MaxRetries},
     model : {NoModel, "gpt-5.1"}, tpm_limit : {0, 3}, stream : {FALSE}]

\* every list of at most n prompts
RECURSIVE PromptLists(_)
PromptLists(n) ==
    IF n = 0 THEN {<<>>}
    ELSE PromptLists(n - 1) \cup
         {Append(l, p) : l \in {k \in PromptLists(n - 1) : Len(k) = n - 1}, p \in Prompts}

Init ==
    /\ \E c \in BatchConfigs : InitClient(c)
    /\ RawIdle
    /\ ThrIdle

Next ==
    \/ \E ts \in PromptLists(MaxPrompts) : ReviewBatch(ts)
    \/ \E i \in Indices : StartTask(i)
    \/ \E i \in Indices : Attempt(i, BatchOutcomes)
    \/ \E i \in Indices : Collect(i)
    \/ \E i \in Indices : SeqCollect(i)
    \/ Return

Spec == Init /\ [][Next]_vars

\* what a request of a batch ends in, as far as the retry loop can tell: an
\* error of the provider, a response whose parsing raises, a response that
\* is returned
FairOutcomes ==
    { Raises("Transient"), Responds(CNone, NoUsage),
      Responds(CObj(JStr(EXCLUDE), Absent), SomeUsage) }

NextFair ==
    \/ \E ts \in PromptLists(MaxPrompts) : ReviewBatch(ts)
    \/ \E i \in Indices : StartTask(i)
    \/ \E i \in Indices : Attempt(i, FairOutcomes)
    \/ \E i \in Indices : Collect(i)
    \/ \E i \in Indices : SeqCollect(i)
    \/ Return

\* review_batch under a fair scheduler: a thread that can take its next step
\* takes it, and every request is answered or fails (the Attempt step ends);
\* nothing obliges anyone to call review_batch
SpecFair ==
    /\ Init
    /\ [][NextFair]_vars
    /\ WF_vars(\E i \in Indices : StartTask(i))
    /\ WF_vars(\E i \in Indices : Attempt(i, FairOutcomes))
    /\ WF_vars(\E i \in Indices : Collect(i))
    /\ WF_vars(\E i \in Indices : SeqCollect(i))
    /\ WF_vars(Return)

\* the decision strings a response may carry
CallLabels ==
    { INCLUDE, EXCLUDE, UNSURE,
      <<"I","n","c","l","u","d","e"," ">>, <<" ","E","X","C","L","U","D","E">>,
      <<"\t","U","n","S","u","r","e","\n">>,
      <<>>, <<" ">>, <<"m","a","y","b","e">>, <<"i","n","c","l","u","d","e","s">>,
      <<"i","n"," ","c","l","u","d","e">> }

CallContents ==
    {CNone, CText, CEmpty, CList, CString, CNull} \cup
    { CObj(d, n) : d \in {Absent, JNull, JNum, JEmptyObj} \cup {JStr(l) : l \in CallLabels},
                   n \in {Absent, JEmptyObj, JNull, JStr(<<"o","k">>)} }

\* what the provider does on a request of a direct review_single call
CallOutcomes ==
    {Raises("Transient"), Raises("Permanent")} \cup
    {Responds(c, u) : c \in CallContents, u \in {NoUsage, SomeUsage}}

CallConfigs ==
    {DefaultConfig} \cup
    [max_workers : {1}, max_retries : 1..MaxRetries,
     model : {NoModel} \cup Models, tpm_limit : TpmLimits, stream : BOOLEAN]

InitCall ==
    /\ \E c \in CallConfigs : InitClient(c)
    /\ RawIdle
    /\ ThrIdle

NextCall ==
    \/ \E t \in Prompts : CallReviewSingle(t)
    \/ \E i \in Indices : StartTask(i)
    \/ \E i \in Indices : Attempt(i, CallOutcomes)
    \/ ReturnSingle

SpecCall == InitCall /\ [][NextCall]_vars

\* ------------------------------------------------------ Decision.from_raw
InitRaw ==
    /\ InitClient(DefaultConfig)
    /\ raw_label \in RawLabels
    /\ label1 = NoneValue
    /\ label2 = NoneValue
    /\ pcRaw = "input"
    /\ ThrIdle

\* label1 = Decision.from_raw(raw_label)
FromRawOnce ==
    /\ pcRaw = "input"
    /\ label1' = from_raw(raw_label)
    /\ pcRaw' = "once"
    /\ UNCHANGED <<raw_label, label2, clientVars, batchVars, thrVars>>

\* label2 = Decision.from_raw(label1)
FromRawTwice ==
    /\ pcRaw = "once"
    /\ label2' = from_raw(label1)
    /\ pcRaw' = "twice"
    /\ UNCHANGED <<raw_label, label1, clientVars, batchVars, thrVars>>

NextRaw == FromRawOnce \/ FromRawTwice

SpecFromRaw == InitRaw /\ [][NextRaw]_vars

\* ------------------------------------------------- rate_limit, one caller
\* how long after the previous call returned the caller calls rate_limit
Delays == {0, 2, WINDOW}

\* the tokens a call asks for: from none to one more than the limit
RateTokens == 0..(cfg.tpm_limit + 1)

RateConfigs ==
    [max_workers : {1}, max_retries : {DEFAULT_MAX_RETRIES}, model : {"gpt-5.1"},
     tpm_limit : TpmLimits, stream : {FALSE}]

InitRate ==
    /\ \E c \in RateConfigs : InitClient(c)
    /\ RawIdle
    /\ ThrIdle

\* self.rate_limit(tokens_requested), called d after the previous call
\* returned by the one thread that uses the client: time.sleep is where the
\* clock moves during the call
RateLimitCall(d, tokens_requested) ==
    /\ rl_last.n < MaxRequests
    /\ LET entered == now + d
           rl == RateLimit(call_timestamps, entered, cfg.tpm_limit, tokens_requested)
       IN  /\ call_timestamps' = rl.window
           /\ now' = rl.now
           /\ rl_last' = [n |-> rl_last.n + 1,
                          tokens |-> tokens_requested,
                          exc |-> rl.exc,
                          entered |-> entered,
                          before |-> call_timestamps,
                          oversize |-> rl_last.oversize
                                       \/ tokens_requested > cfg.tpm_limit]
           /\ grants' = IF rl.exc = "none" /\ rl.window # Live(call_timestamps, entered)
                        THEN Append(grants, [at |-> rl.now, ts |-> entered,
                                             tokens |-> tokens_requested])
                        ELSE grants
    /\ UNCHANGED <<cfg, total_tokens, total_cost, encoding_cache, batchVars,
                   rawVars, thr>>

NextRate == \E d \in Delays : \E n \in RateTokens : RateLimitCall(d, n)

SpecRate == InitRate /\ [][NextRate]_vars

\* -------------------------------------------- invoke_model, worker threads
\* The worker threads of the pool inside invoke_model, one prompt each, in
\* steps of one access to the client's shared attributes: no statement of
\* rate_limit, invoke_model or calculate_cost holds a lock, and a thread
\* switch may fall between any two of the accesses.
Workers == 1..MaxWorkers

\* a second usage report, of other token counts
MoreUsage == [present |-> TRUE, prompt_tokens |-> 2, completion_tokens |-> 3]
ThreadUsages == {NoUsage, SomeUsage, MoreUsage}

\* where the model stops the clock
MaxClock == 2 * WINDOW + BUFFER

ThreadConfigs ==
    [max_workers : {MaxWorkers}, max_retries : {DEFAULT_MAX_RETRIES},
     model : {"gpt-5.1"}, tpm_limit : TpmLimits, stream : {FALSE}]

\* the locals of a thread that enters invoke_model with a prompt of n tokens
ThreadStart(n) ==
    [pc |-> "start", tokens |-> n, now |-> 0, purged |-> <<>>, used |-> 0,
     wake |-> 0, used_tokens |-> 0, read |-> 0]

InitThreads ==
    /\ cfg \in ThreadConfigs
    /\ call_timestamps = <<>>
    /\ now = 0
    /\ total_tokens = 0
    /\ total_cost = 0
    /\ encoding_cache = {}
    /\ texts \in {l \in PromptLists(MaxWorkers) : Len(l) = MaxWorkers}
    /\ pcMain = "pool"
    /\ results = [i \in Workers |-> [dec |-> UNSURE, notes |-> <<>>]]
    /\ st = [i \in Workers |-> "running"]
    /\ tries = [i \in Workers |-> 0]
    /\ fut = [i \in Workers |-> Raised("not done")]
    /\ calls = [i \in Workers |-> 0]
    /\ last = NoAttempt
    /\ RawIdle
    /\ grants = <<>>
    /\ rl_last = NoCall
    /\ thr = [w \in Workers |-> ThreadStart(Len(SystemPrompt) + Len(texts[w]))]

\* thread w moves from pc a to the locals r
At(w, a) == thr[w].pc = a
Goto(w, r) == thr' = [thr EXCEPT ![w] = r]

\* the frame of a step that touches no shared attribute
ThreadLocal ==
    UNCHANGED <<clientVars, batchVars, rawVars, limVars>>

\* rate_limit: "if not self.tpm_limit: return", "now = time.time()"
RlEnter(w) ==
    /\ At(w, "start")
    /\ Goto(w, IF cfg.tpm_limit = 0
               THEN [thr[w] EXCEPT !.pc = "request"]
               ELSE [thr[w] EXCEPT !.pc = "purge", !.now = now])
    /\ UNCHANGED <<cfg, call_timestamps, now, total_tokens, total_cost>>
    /\ encoding_cache' = encoding_cache \cup {cfg.model}
    /\ UNCHANGED <<batchVars, rawVars, limVars>>

\* the list comprehension of the purge reads self.call_timestamps
RlPurgeRead(w) ==
    /\ At(w, "purge")
    /\ Goto(w, [thr[w] EXCEPT !.pc = "purged",
                              !.purged = Live(call_timestamps, thr[w].now)])
    /\ ThreadLocal

\* and its result is assigned to self.call_timestamps
RlPurgeWrite(w) ==
    /\ At(w, "purged")
    /\ call_timestamps' = thr[w].purged
    /\ Goto(w, [thr[w] EXCEPT !.pc = "sum", !.purged = <<>>])
    /\ UNCHANGED <<cfg, now, total_tokens, total_cost, encoding_cache,
                   batchVars, rawVars, limVars>>

\* used_last_minute = sum(...), and the comparison with the limit
RlSum(w) ==
    /\ At(w, "sum")
    /\ LET used_last_minute == SumTokens(call_timestamps)
       IN  Goto(w, [thr[w] EXCEPT
                      !.used = used_last_minute,
                      !.pc = IF used_last_minute + thr[w].tokens > cfg.tpm_limit
                             THEN "min" ELSE "append"])
    /\ ThreadLocal

\* earliest_ts = min(...), wait_seconds, and the call of time.sleep: min of
\* an empty list and a sleep of negative length raise ValueError
RlMin(w) ==
    /\ At(w, "min")
    /\ LET wait_seconds == WINDOW - (thr[w].now - MinTs(call_timestamps)) + BUFFER
       IN  Goto(w, IF call_timestamps = <<>> \/ wait_seconds < 0
                   THEN [thr[w] EXCEPT !.pc = "raised"]
                   ELSE [thr[w] EXCEPT !.pc = "sleep", !.wake = now + wait_seconds])
    /\ ThreadLocal

\* time.sleep returns
RlWake(w) ==
    /\ At(w, "sleep")
    /\ now >= thr[w].wake
    /\ Goto(w, [thr[w] EXCEPT !.pc = "append"])
    /\ ThreadLocal

\* self.call_timestamps.append((now, tokens_requested))
RlAppend(w) ==
    /\ At(w, "append")
    /\ call_timestamps' = Append(call_timestamps, <<thr[w].now, thr[w].tokens>>)
    /\ grants' = Append(grants, [at |-> now, ts |-> thr[w].now,
                                 tokens |-> thr[w].tokens])
    /\ Goto(w, [thr[w] EXCEPT !.pc = "request", !.used = 0, !.wake = 0])
    /\ UNCHANGED <<cfg, now, total_tokens, total_cost, encoding_cache,
                   batchVars, rawVars, rl_last>>

\* the request, answered with a usage report or without one
ThreadRequest(w, usage) ==
    /\ At(w, "request")
    /\ calls' = [calls EXCEPT ![w] = @ + 1]
    /\ Goto(w, IF usage.present
               THEN [thr[w] EXCEPT !.pc = "tokens",
                       !.used_tokens = UsedTokens(usage)]
               ELSE [thr[w] EXCEPT !.pc = "parse"])
    /\ UNCHANGED <<clientVars, texts, pcMain, results, st, tries, fut, last,
                   rawVars, limVars>>

\* self.total_tokens += used_tokens: the attribute is read
ReadTotalTokens(w) ==
    /\ At(w, "tokens")
    /\ Goto(w, [thr[w] EXCEPT !.pc = "tokens_read", !.read = total_tokens])
    /\ ThreadLocal

\* and the sum is stored
WriteTotalTokens(w) ==
    /\ At(w, "tokens_read")
    /\ total_tokens' = thr[w].read + thr[w].used_tokens
    /\ Goto(w, [thr[w] EXCEPT !.pc = "cost", !.read = 0])
    /\ UNCHANGED <<cfg, call_timestamps, now, total_cost, encoding_cache,
                   batchVars, rawVars, limVars>>

\* calculate_cost: self.total_cost += cost, read
ReadTotalCost(w) ==
    /\ At(w, "cost")
    /\ Goto(w, [thr[w] EXCEPT !.pc = "cost_read", !.read = total_cost])
    /\ ThreadLocal

\* and stored
WriteTotalCost(w) ==
    /\ At(w, "cost_read")
    /\ total_cost' = thr[w].read + CalculateCost(cfg.model, thr[w].used_tokens)
    /\ Goto(w, [thr[w] EXCEPT !.pc = "parse", !.read = 0])
    /\ UNCHANGED <<cfg, call_timestamps, now, total_tokens, encoding_cache,
                   batchVars, rawVars, limVars>>

\* the times the clock is looked at next: when a sleeping thread is due,
\* and when the entries of now have left the window
Ticks == {thr[w].wake : w \in {v \in Workers : thr[v].pc = "sleep"}}
         \cup {now + WINDOW}

\* time passes, up to t
Tick(t) ==
    /\ t > now
    /\ t <= MaxClock
    /\ now' = t
    /\ UNCHANGED <<cfg, call_timestamps, total_tokens, total_cost,
                   encoding_cache, batchVars, rawVars, thrVars>>

NextThreads ==
    \/ \E w \in Workers : RlEnter(w)
    \/ \E w \in Workers : RlPurgeRead(w)
    \/ \E w \in Workers : RlPurgeWrite(w)
    \/ \E w \in Workers : RlSum(w)
    \/ \E w \in Workers : RlMin(w)
    \/ \E w \in Workers : RlWake(w)
    \/ \E w \in Workers : RlAppend(w)
    \/ \E w \in Workers : \E u \in ThreadUsages : ThreadRequest(w, u)
    \/ \E w \in Workers : ReadTotalTokens(w)
    \/ \E w \in Workers : WriteTotalTokens(w)
    \/ \E w \in Workers : ReadTotalCost(w)
    \/ \E w \in Workers : WriteTotalCost(w)
    \/ \E t \in Ticks : Tick(t)

SpecThreads == InitThreads /\ [][NextThreads]_vars

\* ------------------------------------------------ the pool, a task raising
\* review_single raises in a worker thread: an exception from outside the
\* try of call_with_retries, as of the model lookup on a model_map that is
\* no mapping, or of the logger call in the except branch
TaskFault(i) ==
    /\ pcMain = "pool"
    /\ i \in Indices
    /\ st[i] = "running"
    /\ st' = [st EXCEPT ![i] = "done"]
    /\ fut' = [fut EXCEPT ![i] = Raised("Unexpected")]
    /\ UNCHANGED <<clientVars, texts, pcMain, results, tries, calls, last,
                   rawVars, thrVars>>

PoolConfigs == {c \in BatchConfigs : c.max_workers > 1}

InitPool ==
    /\ \E c \in PoolConfigs : InitClient(c)
    /\ RawIdle
    /\ ThrIdle

NextPool ==
    \/ \E ts \in PromptLists(MaxPrompts) : ReviewBatch(ts)
    \/ \E i \in Indices : StartTask(i)
    \/ \E i \in Indices : Attempt(i, BatchOutcomes)
    \/ \E i \in Indices : TaskFault(i)
    \/ \E i \in Indices : Collect(i)
    \/ Return

SpecPool == InitPool /\ [][NextPool]_vars

\* ------------------- the sequential branch, a provider that always answers
\* the provider answers every request, with a body that is no JSON or with
\* an object that carries a decision
SeqOutcomes ==
    { Responds(CText, SomeUsage),
      Responds(CObj(JStr(<<"I","n","c","l","u","d","e"," ">>), JEmptyObj), SomeUsage),
      Responds(CObj(JStr(EXCLUDE), Absent), SomeUsage) }

SeqConfigs == {c \in BatchConfigs : c.max_workers = 1 /\ c.model # NoModel}

InitSeq ==
    /\ \E c \in SeqConfigs : InitClient(c)
    /\ RawIdle
    /\ ThrIdle

NextSeq ==
    \/ \E ts \in PromptLists(MaxPrompts) : ReviewBatch(ts)
    \/ \E i \in Indices : StartTask(i)
    \/ \E i \in Indices : Attempt(i, SeqOutcomes)
    \/ \E i \in Indices : SeqCollect(i)
    \/ Return

SpecSeq == InitSeq /\ [][NextSeq]_vars

\* ------------------------------- review_batch, a provider that is a function
\* A provider whose answer to a request is a function of the prompt alone:
\* the batch of Spec with it, for every max_workers.
Provider(text) ==
    IF Len(text) = 1
    THEN Responds(CObj(JStr(<<"I","n","c","l","u","d","e"," ">>),
                       JStr(<<"o","k">>)), SomeUsage)
    ELSE Responds(CObj(JStr(EXCLUDE), Absent), SomeUsage)

\* call_with_retries(text, model) run by the one thread that uses the client,
\* from its n-th try on, the window being w and the time t: what it returns,
\* the window and the time it leaves
RECURSIVE CallWithRetries(_, _, _, _)
CallWithRetries(text, w, t, n) ==
    LET rl == RateLimit(w, t, cfg.tpm_limit, Len(SystemPrompt) + Len(text))
        o == Provider(text)
        out == IF rl.exc # "none" THEN Raised(rl.exc)
               ELSE IF o.raise # "none" THEN Raised(o.raise)
               ELSE ParseResponse(TextResponse(o))
        end == InnerCallEnd(out, n)
    IN  IF end = Raised("retry")
        THEN CallWithRetries(text, rl.window, rl.now, n + 1)
        ELSE [end |-> end, window |-> rl.window, now |-> rl.now]

\* review_single(text) run by the one thread that uses the client
ReviewSingle(text, w, t) ==
    IF cfg.model = NoModel
    THEN [end |-> Returned(UNSURE, NOTE_MODEL_MISSING), window |-> w, now |-> t]
    ELSE CallWithRetries(text, w, t, 1)

\* [self.review_single(t) for t in texts], from the k-th prompt on
RECURSIVE Sequential(_, _, _)
Sequential(k, w, t) ==
    IF k > Len(texts) THEN <<>>
    ELSE LET r == ReviewSingle(texts[k], w, t)
         IN  <<Slot(r.end)>> \o Sequential(k + 1, r.window, r.now)

NextEquiv ==
    \/ \E ts \in PromptLists(MaxPrompts) : ReviewBatch(ts)
    \/ \E i \in Indices : StartTask(i)
    \/ \E i \in Indices : Attempt(i, {Provider(texts[i])})
    \/ \E i \in Indices : Collect(i)
    \/ \E i \in Indices : SeqCollect(i)
    \/ Return

SpecEquiv == Init /\ [][NextEquiv]_vars

\* ------------------------------------------------------------------ claims
\* C1: review_batch returns one result per prompt, and result i is what the
\* review_single call for prompt i returned, for max_workers = 1 and for
\* every max_workers > 1, in whatever order the tasks complete.
C1_BatchOrderPreserved ==
    pcMain = "returned" =>
        /\ Len(results) = Len(texts)
        /\ \A i \in Indices : fut[i].exc = "none" /\ results[i] = Slot(fut[i])

\* a pooled batch of two prompts returned two different results
C1_Witness ==
    /\ pcMain = "returned"
    /\ cfg.max_workers > 1
    /\ Len(texts) = 2
    /\ results[1].dec = EXCLUDE
    /\ results[2].dec = INCLUDE

\* C2: review_batch never lets an exception of one prompt's processing
\* escape, in the sequential branch as in the pool, whatever the provider
\* does; every decision it returns is include, exclude or unsure.
C2_BatchNeverRaises ==
    /\ pcMain # "raised"
    /\ pcMain = "returned" => \A i \in 1..Len(results) : results[i].dec \in Decision

\* a sequential batch returned although the first prompt's attempts all
\* failed and the second's decision was invalid
C2_Witness ==
    /\ pcMain = "returned"
    /\ cfg.max_workers = 1
    /\ Len(results) = 2
    /\ results[1] = [dec |-> UNSURE, notes |-> NOTE_CALL_FAILED]
    /\ results[2] = [dec |-> UNSURE, notes |-> NOTE_INVALID_DECISION]

\* C3: call_with_retries never raises: whatever exception the attempts end
\* in, it returns a (Decision, notes) pair.
C3_CallWithRetriesNeverRaises ==
    \A i \in Indices :
        st[i] = "done" => fut[i].exc = "none" /\ fut[i].dec \in Decision

\* the last try ended in an exception that is no transient error, and
\* call_with_retries returned the failure note
C3_Witness ==
    /\ Indices = {1}
    /\ st[1] = "done"
    /\ tries[1] = cfg.max_retries
    /\ last.out.exc \in ExceptionKinds \ TransientErrors
    /\ fut[1] = Returned(UNSURE, NOTE_CALL_FAILED)

C5_SuccessAfterTransients ==
    /\ [](\A i \in Indices :
            tries[i] > 0 /\ last.out.exc = "none" =>
                /\ st[i] = "done"
                /\ fut[i] = last.out
                /\ last.transients = tries[i] - 1 =>
                     calls[i] = last.transients + 1)
    /\ [][\A i \in Indices :
            tries[i] > 0 /\ last.out.exc = "none" =>
                tries'[i] = tries[i] /\ calls'[i] = calls[i]]_vars

\* two transient failures, then a response that was accepted: three requests
C5_Witness ==
    /\ Indices = {1}
    /\ st[1] = "done"
    /\ last.transients = 2
    /\ tries[1] = 3
    /\ calls[1] = 3
    /\ last.out.exc = "none"
    /\ fut[1].dec = INCLUDE

\* C6 (as claimed): an attempt is followed by another attempt for the same
\* prompt only if it ended in a transient error.
C6_OnlyTransientRetried ==
    [][\A i \in Indices :
         tries[i] > 0 /\ tries'[i] > tries[i] =>
             last.out.exc \in TransientErrors]_vars

Malformed(c) ==
    \/ c.kind \in {"none", "text", "empty", "list", "string", "null"}
    \/ c.kind = "object" /\ c.decision.t = "absent"

\* C7 (as claimed): after a response whose content is malformed (no JSON,
\* absent, JSON that is no object, or an object without decision) the call
\* is over, without another attempt, with unsure and a diagnostic note, which
\* is "non-JSON response" when the content is text that is no JSON.
C7_MalformedNotRetried ==
    \A i \in Indices :
        last.responded /\ Malformed(last.content) =>
            /\ st[i] = "done"
            /\ fut[i].exc = "none"
            /\ fut[i].dec = UNSURE
            /\ fut[i].notes \in {NOTE_NON_JSON, NOTE_INVALID_DECISION, NOTE_CALL_FAILED}
            /\ last.content.kind \in {"text", "empty"} => fut[i].notes = NOTE_NON_JSON

InvalidDecision(c) ==
    /\ c.kind = "object"
    /\ c.decision.t # "absent"
    /\ c.decision.t = "str" => StrLower(StrStrip(c.decision.s)) \notin Decision

\* C8 (as claimed): after a response that is a JSON object whose decision is
\* no string, or a string that is none of the three values, invoke_model has
\* returned (unsure, "invalid decision value"), and the call is over with it.
C8_InvalidDecisionDegrades ==
    \A i \in Indices :
        last.responded /\ InvalidDecision(last.content) =>
            /\ last.out = Returned(UNSURE, NOTE_INVALID_DECISION)
            /\ st[i] = "done"
            /\ fut[i] = last.out

\* C9: after a response that is a JSON object whose decision, trimmed and
\* lowercased, is include, exclude or unsure, invoke_model has returned that
\* decision with json.dumps of the notes field, of {} when there is none.
C9_ValidDecisionReturned ==
    \A i \in Indices :
        /\ last.responded
        /\ last.content.kind = "object"
        /\ last.content.decision.t = "str"
        /\ StrLower(StrStrip(last.content.decision.s)) \in Decision
        => last.out =
             Returned(StrLower(StrStrip(last.content.decision.s)),
                      IF last.content.notes.t = "absent"
                      THEN <<"{", "}">> ELSE JsonDumps(last.content.notes))

\* the response {"decision": "Include ", "notes": {}} gave (include, "{}")
C9_Witness ==
    /\ last.responded
    /\ last.content = CObj(JStr(<<"I","n","c","l","u","d","e"," ">>), JEmptyObj)
    /\ last.out = Returned(INCLUDE, <<"{", "}">>)

\* C10: Decision.from_raw is total and idempotent: for every str and for None
\* it yields one of include / exclude / unsure; it yields unsure unless the
\* input, trimmed and lowercased, is exactly one of the three, and then it
\* yields that one; applying it to its own result changes nothing.
C10_FromRawTotalIdempotent ==
    /\ pcRaw \in {"once", "twice"} =>
         /\ label1 \in Decision
         /\ \A d \in Decision :
              label1 = d <=>
                \/ raw_label # NoneValue /\ StrLower(StrStrip(raw_label)) = d
                \/ d = UNSURE /\ (raw_label = NoneValue
                                  \/ StrLower(StrStrip(raw_label)) \notin Decision)
    /\ pcRaw = "twice" => label2 = label1

\* a padded, mixed-case label was normalised to a decision other than the
\* default, and from_raw was applied to that result again
C10_Witness ==
    /\ pcRaw = "twice"
    /\ raw_label # NoneValue
    /\ raw_label # StrLower(StrStrip(raw_label))
    /\ Len(raw_label) > Len(StrStrip(raw_label))
    /\ label1 = INCLUDE
    /\ label2 = INCLUDE

\* the tokens of the entries of grants whose calls returned within the
\* WINDOW that ends with the return of the k-th
RECURSIVE AdmittedWithin(_, _)
AdmittedWithin(k, j) ==
    IF j = 0 THEN 0
    ELSE AdmittedWithin(k, j - 1) +
         IF grants[j].at <= grants[k].at /\ grants[k].at - grants[j].at < WINDOW
         THEN grants[j].tokens ELSE 0

\* C11: one caller, tpm_limit = L > 0, every request of at most L tokens:
\* whenever a request is admitted (its rate_limit call returns), the tokens
\* admitted within the trailing 60 seconds, this request included, are at
\* most L.
C11_WindowBudgetHeld ==
    (cfg.tpm_limit > 0 /\ ~rl_last.oversize) =>
        \A k \in 1..Len(grants) : AdmittedWithin(k, Len(grants)) <= cfg.tpm_limit

\* C13: rate_limit never raises, whatever it is asked for and whatever the
\* window holds.
C13_RateLimitNeverRaises == rl_last.exc \in {"no call", "none"}

\* C14: with tpm_limit None or 0, a rate_limit call returns at the time it was
\* entered, without an exception, and leaves call_timestamps as it was.
C14_DisabledIsNoOp ==
    [][(cfg.tpm_limit = 0 /\ rl_last'.n # rl_last.n) =>
         /\ rl_last'.exc = "none"
         /\ now' = rl_last'.entered
         /\ call_timestamps' = call_timestamps
         /\ grants' = grants]_vars

\* a client without a limit has made rate_limit calls, of no token and of
\* some tokens, and some time after the previous call
C14_Witness ==
    /\ cfg.tpm_limit = 0
    /\ rl_last.n = MaxRequests
    /\ rl_last.tokens > 0
    /\ rl_last.entered > 0
    /\ call_timestamps = <<>>

\* the entries appended by rate_limit calls that are not yet 60 s old
LiveGrants == {k \in 1..Len(grants) : now - grants[k].ts < WINDOW}

\* C12: with more than one worker, rate_limit calls that all saw the window
\* under budget (none waited, no time has passed) have together admitted at
\* most tpm_limit tokens, and every entry appended in the last 60 s is in
\* call_timestamps.
C12_AdmissionSerialized ==
    /\ (cfg.tpm_limit > 0 /\ now = 0
        /\ \A w \in DOMAIN thr : thr[w].tokens <= cfg.tpm_limit) =>
           AdmittedWithin(Len(grants), Len(grants)) <= cfg.tpm_limit
    /\ Len(Live(call_timestamps, now)) = Cardinality(LiveGrants)

\* the used_tokens of the threads 1..w whose accounting has passed the points
\* in after: the tokens, and their cost
RECURSIVE AccountedTokens(_, _)
AccountedTokens(w, after) ==
    IF w = 0 THEN 0
    ELSE AccountedTokens(w - 1, after) +
         IF thr[w].pc \in after THEN thr[w].used_tokens ELSE 0

\* C15: no update of the usage totals is lost: when k threads have added
\* their used tokens, total_tokens is the sum of the k counts, and total_cost
\* the sum of the k costs.
C15_NoLostUpdate ==
    /\ total_tokens = AccountedTokens(Len(thr), {"cost", "cost_read", "parse"})
    /\ total_cost = CalculateCost(cfg.model, AccountedTokens(Len(thr), {"parse"}))

\* C16: total_tokens and total_cost never decrease, in any interleaving.
C16_TotalsMonotone ==
    [][total_tokens' >= total_tokens /\ total_cost' >= total_cost]_vars

\* C17: an attempt whose response reports usage adds to total_cost the price
\* of the model per 1000 tokens times the used tokens / 1000, the price being
\* the table's or, for a model the table lacks, the default; the attempt then
\* goes on to parse the response (calculate_cost has not raised).
C17_CostIsPriceTimesTokens ==
    [][(tries' # tries /\ last'.responded /\ last'.usage.present) =>
         LET used_tokens == last'.usage.prompt_tokens + last'.usage.completion_tokens
             price_per_1k == CASE cfg.model = "gpt-4o" -> 200
                               [] cfg.model = "gpt-4o-mini" -> 24
                               [] cfg.model = "gpt-4.1" -> 80
                               [] cfg.model = "gpt-4.1-mini" -> 16
                               [] OTHER -> DEFAULT_PRICE
         IN  /\ total_cost' = total_cost + price_per_1k * used_tokens
             /\ last'.out = ParseResponse(last'.content)]_vars

\* two attempts with the stage3 model of settings.py, which the table lacks,
\* have each been charged at the default price
C17_Witness ==
    /\ cfg.model = "gpt-5.1"
    /\ cfg.model \notin DOMAIN PRICE_PER_1K_TOKENS
    /\ tries = <<2>>
    /\ last.usage = SomeUsage
    /\ total_tokens = 6
    /\ total_cost = 2 * (DEFAULT_PRICE * 3)

\* C18: with no model for the stage, review_single returns (unsure, "model
\* configuration missing") and nothing else has happened: no encoder was
\* fetched, no rate_limit entry or wait, no request, no try of the retry
\* loop, no change of the usage totals.
C18_MissingModelShortCircuits ==
    (cfg.model = NoModel /\ pcMain \in {"single", "returned", "raised"}) =>
        /\ pcMain # "raised"
        /\ st[1] = "done" => fut[1] = Returned(UNSURE, NOTE_MODEL_MISSING)
        /\ encoding_cache = {}
        /\ call_timestamps = <<>>
        /\ now = 0
        /\ calls[1] = 0
        /\ tries[1] = 0
        /\ total_tokens = 0
        /\ total_cost = 0

\* a review_single on a client with a limit and no stage model has returned
C18_Witness ==
    /\ cfg.model = NoModel
    /\ cfg.tpm_limit > 0
    /\ pcMain = "returned"
    /\ fut = <<Returned(UNSURE, NOTE_MODEL_MISSING)>>

\* C19: in the pool, the slot of a prompt whose task raised holds (unsure,
\* "concurrent task exception"), the slot of every other prompt holds what
\* its own task returned, and review_batch does not raise.
C19_TaskExceptionContained ==
    /\ pcMain # "raised"
    /\ pcMain \in {"pool", "returned"} =>
         /\ Len(results) = Len(texts)
         /\ \A i \in Indices : st[i] = "collected" =>
              results[i] = IF fut[i].exc = "none" THEN Slot(fut[i])
                           ELSE [dec |-> UNSURE, notes |-> NOTE_TASK_EXCEPTION]
    /\ pcMain = "returned" => \A i \in Indices : st[i] = "collected"

\* a batch of two has returned: the task of one prompt raised, the task of
\* the other returned a decision of the provider
C19_Witness ==
    /\ pcMain = "returned"
    /\ Len(texts) = 2
    /\ \E i, j \in Indices :
         /\ fut[i].exc = "Unexpected"
         /\ results[i] = [dec |-> UNSURE, notes |-> NOTE_TASK_EXCEPTION]
         /\ fut[j].exc = "none"
         /\ fut[j].dec \in {INCLUDE, EXCLUDE}
         /\ results[j] = Slot(fut[j])

\* the provider requests made for the prompts 1..i
RECURSIVE SumCalls(_)
SumCalls(i) == IF i = 0 THEN 0 ELSE SumCalls(i - 1) + calls[i]

\* C20: a sequential batch of N prompts whose requests are all answered, by
\* a non-JSON body or by an object with a decision, a non-JSON body among
\* them: N requests have been made when the batch returns, one for each
\* prompt; a non-JSON body gives (unsure, "non-JSON response"), an object the
\* decision it carries.
C20_OneCallPerPrompt ==
    /\ (pcMain = "returned"
        /\ \E i \in Indices : fut[i] = Returned(UNSURE, NOTE_NON_JSON)) =>
           SumCalls(Len(texts)) = Len(texts)
    /\ \A i \in Indices : (st[i] = "done" /\ last.responded) =>
         /\ calls[i] = 1
         /\ last.content = CText => fut[i] = Returned(UNSURE, NOTE_NON_JSON)
         /\ last.content.kind = "object" =>
              /\ fut[i].exc = "none"
              /\ fut[i].dec = StrLower(StrStrip(last.content.decision.s))

\* the notes a result may carry: the diagnostic strings, and the
\* serializations of the notes of a response
PlaceholderNotes ==
    {NOTE_MODEL_MISSING, NOTE_CALL_FAILED, NOTE_NON_JSON, NOTE_INVALID_DECISION,
     NOTE_TASK_EXCEPTION}
SerializedNotes ==
    {<<"{", "}">>, <<"n","u","l","l">>, <<"7">>, <<"\"", "o", "k", "\"">>}

\* C21: the notes of every result are a string, never None and never the
\* empty filler of the pre-sized list: what invoke_model returns, what
\* review_single and call_with_retries return, and every slot of the list
\* review_batch returns carry a diagnostic string or the serialized notes.
C21_NotesAlwaysString ==
    /\ last.out.exc = "none" =>
         /\ last.out.notes # NoneValue
         /\ last.out.notes \in PlaceholderNotes \cup SerializedNotes
    /\ \A i \in Indices :
         /\ fut[i].exc = "none" =>
              /\ fut[i].notes # NoneValue
              /\ fut[i].notes \in PlaceholderNotes \cup SerializedNotes
         /\ (pcMain = "returned" \/ st[i] = "collected") =>
              /\ results[i].notes # NoneValue
              /\ results[i].notes \in PlaceholderNotes \cup SerializedNotes
    /\ pcMain = "returned" => Len(results) = Len(texts)

\* a pooled batch of two has returned: one slot carries the serialized notes
\* of an accepted response, the other a diagnostic string
C21_Witness ==
    /\ pcMain = "returned"
    /\ cfg.max_workers > 1
    /\ Len(results) = 2
    /\ \E i, j \in Indices :
         /\ results[i].dec \in {INCLUDE, EXCLUDE}
         /\ results[i].notes = <<"{", "}">>
         /\ results[j].notes \in PlaceholderNotes

\* C22: with max_workers <= 1 the prompts are processed one after the other
\* in the order of the input: a prompt's review_single has begun only when
\* every earlier prompt's has returned and its result is in the list, and at
\* most one review_single is under way at any time.
C22_SequentialInOrder ==
    (cfg.max_workers <= 1 /\ pcMain = "seq") =>
        /\ \A i, j \in Indices :
             (i < j /\ st[j] # "pending") =>
                 /\ st[i] = "collected"
                 /\ Len(results) >= i
        /\ Cardinality({i \in Indices : st[i] \in {"running", "done"}}) <= 1
        /\ \A i \in Indices : st[i] = "pending" => tries[i] = 0 /\ calls[i] = 0

\* the second prompt of a sequential batch is being retried after the first
\* was resolved
C22_Witness ==
    /\ cfg.max_workers = 1
    /\ pcMain = "seq"
    /\ Len(texts) = 2
    /\ st = <<"collected", "running">>
    /\ tries[1] >= 1
    /\ tries[2] >= 1

\* C23: the state of a prompt moves only forward: from pending to running
\* (dispatched, then retried try after try) and from running to resolved,
\* or from pending to resolved at once when the dispatched review_single
\* finds no model; once resolved, its result, its tries and its requests
\* stay as they are and its slot is written once; what it is resolved to is
\* a returned Decision, never an exception.
C23_PromptStateMachine ==
    [][\A i \in DOMAIN st \cap DOMAIN st' :
         /\ st[i] = "pending" =>
              \/ st'[i] \in {"pending", "running"} /\ tries'[i] = 0
              \/ st'[i] = "done" /\ cfg.model = NoModel /\ tries'[i] = 0
         /\ st[i] = "running" =>
              /\ st'[i] \in {"running", "done"}
              /\ tries'[i] \in {tries[i], tries[i] + 1}
              /\ st'[i] = "done" => tries'[i] = tries[i] + 1
         /\ st[i] = "done" =>
              /\ st'[i] \in {"done", "collected"}
              /\ fut'[i] = fut[i] /\ tries'[i] = tries[i] /\ calls'[i] = calls[i]
         /\ st[i] = "collected" =>
              /\ st'[i] = "collected"
              /\ fut'[i] = fut[i] /\ tries'[i] = tries[i] /\ calls'[i] = calls[i]
              /\ results'[i] = results[i]
         /\ st'[i] \in {"done", "collected"} =>
              /\ fut'[i].exc = "none"
              /\ fut'[i].dec \in Decision
         /\ st'[i] = "collected" => results'[i].dec \in Decision]_vars

\* in a pooled batch a prompt was dispatched, retried and resolved to a
\* decision of the provider while another is still pending
C23_Witness ==
    /\ pcMain = "pool"
    /\ \E i, j \in Indices :
         /\ st[i] = "collected"
         /\ tries[i] >= 2
         /\ results[i].dec = INCLUDE
         /\ st[j] = "running"
         /\ tries[j] >= 1

\* C24: under fair scheduling, with every request answered or failed in
\* finite time, a review_batch that was called returns, every prompt
\* resolved, whatever the worker count and whatever the provider does.
C24_BatchTerminates ==
    (pcMain \in {"seq", "pool"}) ~>
        (pcMain = "returned" /\ \A i \in Indices : st[i] = "collected")

\* a pooled batch has returned after a prompt used up its tries
C24_Witness ==
    /\ pcMain = "returned"
    /\ cfg.max_workers > 1
    /\ cfg.max_retries = MaxRetries
    /\ Len(texts) = MaxPrompts
    /\ \E i \in Indices : tries[i] = cfg.max_retries /\ calls[i] = cfg.max_retries

\* C25: a try whose response carries no usage report, as every streamed
\* response, leaves total_tokens and total_cost as they were, and so does a
\* try without a response; a try whose response carries one adds its
\* prompt_tokens + completion_tokens to total_tokens.
C25_UsageSkippedOrAdded ==
    [][tries' # tries =>
         /\ (~last'.responded \/ ~last'.usage.present) =>
              total_tokens' = total_tokens /\ total_cost' = total_cost
         /\ (last'.responded /\ cfg.stream) => ~last'.usage.present
         /\ (last'.responded /\ last'.usage.present) =>
              total_tokens' = total_tokens + last'.usage.prompt_tokens
                                           + last'.usage.completion_tokens]_vars

\* a streamed call was answered twice and the totals are where they began
C25_Witness ==
    /\ cfg.stream
    /\ calls = <<2>>
    /\ last.responded
    /\ ~last.usage.present
    /\ last.transients = 0
    /\ total_tokens = 0
    /\ total_cost = 0

\* C26: every try of inner_call sends at most one request to the provider,
\* and sends it exactly when rate_limit let the try through; with a limit
\* set, a try is let through exactly when its entry (the time it entered
\* rate_limit, its estimated tokens) is the newest of the window, so that a
\* try rate_limit raised in has sent nothing and has got no response.
C26_RequestAfterAdmission ==
    [][(tries # <<>> /\ tries' # tries) =>
         LET estimate == Len(SystemPrompt) + Len(texts[1])
             recorded == /\ call_timestamps' # <<>>
                         /\ call_timestamps'[Len(call_timestamps')]
                               = <<now, estimate>>
         IN  /\ calls'[1] = calls[1] + (IF last'.requested THEN 1 ELSE 0)
             /\ last'.responded => last'.requested
             /\ cfg.tpm_limit > 0 => (last'.requested <=> recorded)
             /\ cfg.tpm_limit = 0 => last'.requested
             /\ ~last'.requested =>
                   /\ last'.out = Raised("ValueError")
                   /\ total_tokens' = total_tokens]_vars

\* with a limit set, two tries were let through, the second after a wait,
\* and each sent its request
C26_Witness ==
    /\ cfg.tpm_limit > 0
    /\ tries = <<2>>
    /\ calls = <<2>>
    /\ Len(call_timestamps) = 2
    /\ now > 0
    /\ last.requested

\* C27: a rate_limit call that finds the window over budget sleeps
\* 60 s - (now - the oldest live timestamp) + the buffer, which is not
\* negative, one that finds it under budget does not sleep, and the entry the
\* call appends carries the time at which the call returns.
C27_EntryStampedAtGrant ==
    (cfg.tpm_limit > 0 /\ rl_last.n > 0 /\ rl_last.exc = "none") =>
        LET live == Live(rl_last.before, rl_last.entered)
            over == SumTokens(live) + rl_last.tokens > cfg.tpm_limit
            wait_seconds == now - rl_last.entered
        IN  /\ over => /\ wait_seconds
                            = WINDOW - (rl_last.entered - MinTs(live)) + BUFFER
                       /\ wait_seconds >= 0
            /\ ~over => wait_seconds = 0
            /\ call_timestamps # <<>>
            /\ call_timestamps[Len(call_timestamps)] = <<now, rl_last.tokens>>

\* C28: with a provider whose answer is a function of the prompt, review_batch
\* returns, for every max_workers and in every interleaving of the tasks, the
\* list that the sequential branch computes for the same client and prompts.
C28_WorkerCountEquivalence ==
    pcMain = "returned" => results = Sequential(1, <<>>, 0)

\* C29: in the sequential branch with a limit set, every try of inner_call,
\* a first one or a retry, goes through rate_limit by itself: a try that is
\* let through, whatever becomes of its request, adds exactly one entry (the
\* time it entered, the prompt's estimated tokens) to the entries not yet
\* 60 s old, and a try that is not let through adds none; so the entries
\* recorded for a prompt are as many as its tries that were let through.
C29_EveryTryAdmitted ==
    [][(pcMain = "seq" /\ cfg.tpm_limit > 0) =>
         \A i \in Indices : tries'[i] # tries[i] =>
             LET live == Live(call_timestamps, now)
                 entry == <<now, Len(SystemPrompt) + Len(texts[i])>>
             IN  /\ tries'[i] = tries[i] + 1
                 /\ calls'[i] = calls[i] + Len(call_timestamps') - Len(live)
                 /\ IF last'.requested
                    THEN call_timestamps' = Append(live, entry)
                    ELSE call_timestamps' = live]_vars

\* the first prompt's request failed and was retried, and the window holds
\* an entry of each of the two tries
C29_Witness ==
    /\ pcMain = "seq"
    /\ cfg.tpm_limit > 0
    /\ Len(tries) >= 1
    /\ tries[1] = 2
    /\ calls[1] = 2
    /\ last.transients >= 1
    /\ Len(call_timestamps) = 2

\* C30: for one caller, total_tokens and total_cost change with a provider
\* response that carries a usage report and with nothing else: every such
\* response adds its prompt_tokens + completion_tokens (and their cost),
\* whether its body then parses to a decision, is rejected as non-JSON or as
\* an invalid decision, or makes the parsing raise and the try be retried.
C30_UsageCountedPerResponse ==
    [][LET reported == /\ tries' # tries
                       /\ tries # <<>>
                       /\ last'.responded
                       /\ last'.usage.present
           used == IF reported
                   THEN last'.usage.prompt_tokens + last'.usage.completion_tokens
                   ELSE 0
           unit_price == IF cfg.model \in DOMAIN PRICE_PER_1K_TOKENS
                         THEN PRICE_PER_1K_TOKENS[cfg.model] ELSE DEFAULT_PRICE
       IN  /\ total_tokens' = total_tokens + used
           /\ total_cost' = total_cost + unit_price * used]_vars

\* two responses with a usage report were counted: the first made the parsing
\* raise and was retried, the second was rejected as an invalid decision
C30_Witness ==
    /\ tries = <<2>>
    /\ calls = <<2>>
    /\ last.responded
    /\ last.usage = SomeUsage
    /\ last.out = Returned(UNSURE, NOTE_INVALID_DECISION)
    /\ last.transients = 0
    /\ total_tokens = 2 * (SomeUsage.prompt_tokens + SomeUsage.completion_tokens)

====
